---- MODULE Spec2Model ----
(***************************************************************************)
(* Apple Health export pipeline: the four daily transforms of              *)
(* scripts/transform_data.py (heart, respiration, sleep, steps), its       *)
(* driver main(), and the filtered extraction pass of                      *)
(* scripts/extract_data.py.                                                *)
(*                                                                         *)
(* Time is counted in minutes from an origin; a calendar day is DayLen     *)
(* minutes long.  A CSV cell is a record [txt, v]: txt says what the text  *)
(* of the cell is ("ts" a well-formed timestamp, "num" a number, "text"    *)
(* anything else, "blank" an empty cell) and v is the value it denotes.    *)
(* A parsed cell is a record [isna, v]: pandas' NaT / NaN is isna = TRUE.  *)
(***************************************************************************)
EXTENDS Integers, Sequences, FiniteSets, TLC

VARIABLES
    metric,           \* which transform the table is handed to
    df,               \* the input DataFrame: a sequence of rows of cells
    pc,               \* "loaded" -> "done" (-> "remerged")
    merged_sessions,  \* transform_sleep_data's list of merged intervals
    result,           \* [raised, table]: the exception or the returned table
    remerged,         \* the merge run again on merged_df
    stage,            \* main(): [at, k], the statement main() is at and the metric's number
    frames,           \* main(): the locals heart_df, heart_tf, resp_df, ...: a sequence of [df, tf]
    store,            \* main(): the objects put into the target bucket, [key, body], in put order
    log,              \* main(): the calls made and the messages logged / printed, in order
    doc,              \* extract: the XML document, its elements in document order
    cursor,           \* extract: number of 'start' events iterparse has delivered
    filter,           \* extract: record_type_filter of the running pass
    rows,             \* extract: the rows the generator has yielded, in order
    warnings,         \* extract: positions of the records logged as skipped
    pass,             \* parse_and_write: [n, at], the pass under way and the statement reached
    fpos,             \* parse_and_write: streaming_body's file position, in elements
    buffer,           \* parse_and_write: elements iterparse has read and not yet delivered
    written           \* parse_and_write: the CSV objects put, [key, header, rows], in put order

vars == <<metric, df, pc, merged_sessions, result, remerged,
          stage, frames, store, log, doc, cursor, filter, rows, warnings,
          pass, fpos, buffer, written>>

transformVars == <<metric, df, pc, merged_sessions, result, remerged>>
mainVars == <<stage, frames, store, log>>
parseVars == <<pass, fpos, buffer, written>>
extractVars == <<doc, cursor, filter, rows, warnings, parseVars>>

-----------------------------------------------------------------------------
(* Bounds of the model *)

DayLen == 2            \* minutes in a calendar day
DaysPerMonth == 2
MonthsPerYear == 2
SleepMaxRows == 2      \* rows of a sleep table (SpecSleep)
SleepMaxTime == 3      \* start / end timestamps 0..SleepMaxTime (SpecSleep)
SleepMaxReport == 1    \* report timestamps 0..SleepMaxReport (SpecSleep)
TMaxRows == 2          \* rows of a table (SpecTransform)
TMaxTime == 2          \* created_at timestamps 0..TMaxTime (SpecTransform)
TSleepMaxTime == 1     \* sleep timestamps 0..TSleepMaxTime (SpecTransform)
MainMaxRows == 1       \* rows of a table read by main() (SpecMain)
DocMaxLen == 3         \* elements of the XML document (SpecExtract)
ParseMaxLen == 3       \* elements of the XML document (SpecParse)
ChunkLen == 2          \* elements one read of iterparse takes from the source (SpecParse)

(* Constants of the program *)

HeartMin == 30
HeartMax == 220
RespMin == 8
RespMax == 40
StepMax == 100000

-----------------------------------------------------------------------------
(* Generic helpers *)

Max(a, b) == IF a >= b THEN a ELSE b

Range(s) == {s[i] : i \in 1..Len(s)}

SeqsUpTo(S, n) == UNION {[1..k -> S] : k \in 0..n}

RECURSIVE SumSeq(_)
SumSeq(s) == IF s = <<>> THEN 0 ELSE Head(s) + SumSeq(Tail(s))

\* the elements of a finite set of integers in ascending order
RECURSIVE Ascending(_)
Ascending(S) ==
    IF S = {} THEN <<>>
    ELSE LET m == CHOOSE x \in S : \A y \in S : x <= y
         IN  <<m>> \o Ascending(S \ {m})

-----------------------------------------------------------------------------
(* Cells and their parsing *)

TsCell(t) == [txt |-> "ts", v |-> t]
NumCell(n) == [txt |-> "num", v |-> n]
TextCell == [txt |-> "text", v |-> 0]
BlankCell == [txt |-> "blank", v |-> 0]

NA == [isna |-> TRUE, v |-> 0]
Val(n) == [isna |-> FALSE, v |-> n]

\* pd.to_datetime(column, errors='coerce'): NaT for what is no timestamp
to_datetime(c) == IF c.txt = "ts" THEN Val(c.v) ELSE NA

\* pd.to_numeric(column, errors='coerce'): NaN for what is no number
to_numeric(c) == IF c.txt = "num" THEN Val(c.v) ELSE NA

\* Series.dt.date
Date(t) == t \div DayLen

\* Series.dt.year / .dt.month / .dt.day of a date
Year(d) == d \div (DaysPerMonth * MonthsPerYear)
Month(d) == ((d \div DaysPerMonth) % MonthsPerYear) + 1
DayOfMonth(d) == (d % DaysPerMonth) + 1

NoTable == [columns |-> <<>>, rows |-> <<>>]
Returned(t) == [raised |-> "none", table |-> t]
Raised(e) == [raised |-> e, table |-> NoTable]
NotRun == [raised |-> "notrun", table |-> NoTable]

\* one row of a daily table, with the partition columns
DailyRow(d, agg) ==
    [created_at |-> d, agg |-> agg, year |-> Year(d), month |-> Month(d),
     day |-> DayOfMonth(d)]

-----------------------------------------------------------------------------
(* transform_sleep_data *)

\* lines 97-99
SleepParse(r) ==
    [created_at |-> to_datetime(r.created_at),
     start_date |-> to_datetime(r.start_date),
     end_date   |-> to_datetime(r.end_date)]

\* line 101
SleepNotNa(r) == ~r.created_at.isna /\ ~r.start_date.isna /\ ~r.end_date.isna

\* line 102
SleepValid(r) == r.end_date.v > r.start_date.v

\* lines 97-102: the sessions that reach the sort, as [created_at, start_date, end_date] of minutes
SleepClean(table) ==
    LET parsed == [i \in 1..Len(table) |-> SleepParse(table[i])]
        kept   == SelectSeq(SelectSeq(parsed, SleepNotNa), SleepValid)
    IN  [i \in 1..Len(kept) |->
            [created_at |-> kept[i].created_at.v,
             start_date |-> kept[i].start_date.v,
             end_date   |-> kept[i].end_date.v]]

\* the same keys with ascending=False
SortKeyDescending(a, b) ==
    \/ b.created_at < a.created_at
    \/ a.created_at = b.created_at /\ b.start_date <= a.start_date

\* by=['created_at', 'start_date']
SortKeyLeq(a, b) ==
    \/ a.created_at < b.created_at
    \/ a.created_at = b.created_at /\ a.start_date <= b.start_date

\* r placed behind every row whose key is <= its own
InsertSorted(r, s) ==
    LET n == Cardinality({i \in 1..Len(s) : SortKeyLeq(s[i], r)})
    IN  SubSeq(s, 1, n) \o <<r>> \o SubSeq(s, n + 1, Len(s))

\* line 105: df.sort_values(by=[...]), ascending and stable
RECURSIVE sort_values(_)
sort_values(s) ==
    IF s = <<>> THEN <<>>
    ELSE InsertSorted(s[Len(s)], sort_values(SubSeq(s, 1, Len(s) - 1)))

\* a session that starts within a minute after the open interval's end also extends it
OverlapsWithGap(start, current_end) == start <= current_end + 1

\* a session that starts exactly at the open interval's end does not extend it
OverlapsStrict(start, current_end) == start < current_end

\* line 115
Overlaps(start, current_end) == start <= current_end

\* lines 113-121: one iteration of the loop; st = [open, cur, merged]
MergeStep(st, start, end) ==
    IF ~st.open
        THEN [open |-> TRUE, cur |-> <<start, end>>, merged |-> st.merged]
    ELSE IF Overlaps(start, st.cur[2])
        THEN [open |-> TRUE, cur |-> <<st.cur[1], Max(st.cur[2], end)>>,
              merged |-> st.merged]
    ELSE [open |-> TRUE, cur |-> <<start, end>>,
          merged |-> Append(st.merged, st.cur)]

RECURSIVE MergeLoop(_, _)
MergeLoop(s, n) ==
    IF n = 0 THEN [open |-> FALSE, cur |-> <<0, 0>>, merged |-> <<>>]
    ELSE MergeStep(MergeLoop(s, n - 1), s[n].start_date, s[n].end_date)

\* lines 108-125: the merged intervals of a sorted table, as <<start, end>>
MergeSessions(s) ==
    LET st == MergeLoop(s, Len(s))
    IN  IF st.open THEN Append(st.merged, st.cur) ELSE st.merged

SleepColumns == <<"created_at", "total_sleep_minutes", "year", "month", "day">>

\* line 129: minutes between start and end
DurationMins(iv) == iv[2] - iv[1]

\* lines 132-137: total minutes per date of start, dates ascending
SleepDaily(merged) ==
    LET dates == Ascending({Date(merged[i][1]) : i \in 1..Len(merged)})
        OnDate(d) == SelectSeq(merged, LAMBDA iv : Date(iv[1]) = d)
        Total(d) == SumSeq([i \in 1..Len(OnDate(d)) |-> DurationMins(OnDate(d)[i])])
    IN  [columns |-> SleepColumns,
         rows |-> [i \in 1..Len(dates) |-> DailyRow(dates[i], Total(dates[i]))]]

\* lines 128-129: the frame of an empty list has object columns, whose difference has no .dt
SleepDurationRaises(merged) == merged = <<>>

\* lines 94-140
transform_sleep_data(table) ==
    LET merged == MergeSessions(sort_values(SleepClean(table)))
    IN  IF SleepDurationRaises(merged) THEN Raised("AttributeError")
        ELSE Returned(SleepDaily(merged))

\* lines 128, 132: merged_df, each interval a session reported on the date of its start
MergedFrame(merged) ==
    [i \in 1..Len(merged) |->
        [created_at |-> Date(merged[i][1]), start_date |-> merged[i][1],
         end_date |-> merged[i][2]]]

-----------------------------------------------------------------------------
(* transform_heart_data, transform_resp_data, transform_step_data *)

\* ('value', 'mean'): the mean sum / n, kept as the pair <<sum, n>>
Mean(group) == <<SumSeq([i \in 1..Len(group) |-> group[i][2]]), Len(group)>>

\* ('count', 'sum')
Sum(group) == SumSeq([i \in 1..Len(group) |-> group[i][2]])

\* groupby(created_at.dt.date).agg(...).reset_index() and the partition columns:
\* the kept rows, as <<minute, number>>, grouped by date (dates ascending),
\* each group reduced by how ("mean" or "sum")
GroupByDate(kept, how) ==
    LET dates == Ascending({Date(kept[i][1]) : i \in 1..Len(kept)})
        OnDate(d) == SelectSeq(kept, LAMBDA k : Date(k[1]) = d)
        Reduce(g) == IF how = "mean" THEN Mean(g) ELSE Sum(g)
    IN  [i \in 1..Len(dates) |-> DailyRow(dates[i], Reduce(OnDate(dates[i])))]

\* the lower limit itself left out
HeartInRangeExclusive(x) == ~x.isna /\ x.v > HeartMin /\ x.v <= HeartMax

\* line 41
HeartInRange(x) == ~x.isna /\ x.v >= HeartMin /\ x.v <= HeartMax

\* line 69
RespInRange(x) == ~x.isna /\ x.v >= RespMin /\ x.v <= RespMax

\* line 153
StepInRange(x) == ~x.isna /\ x.v <= StepMax

\* lines 42, 70, 154: dropna(subset=['created_at'])
CreatedNotNa(r) == ~r.created_at.isna

Kept(parsed) == [i \in 1..Len(parsed) |-> <<parsed[i].created_at.v, parsed[i].x.v>>]

HeartColumns == <<"created_at", "avg_heart_rate", "year", "month", "day">>
RespColumns == <<"created_at", "avg_resp_rate", "year", "month", "day">>
StepColumns == <<"created_at", "total_steps", "year", "month", "day">>

\* lines 37-55
transform_heart_data(table) ==
    LET parsed == [i \in 1..Len(table) |->
                      [created_at |-> to_datetime(table[i].created_at),
                       x |-> to_numeric(table[i].value)]]
        ranged == SelectSeq(parsed, LAMBDA r : HeartInRange(r.x))
        kept   == SelectSeq(ranged, CreatedNotNa)
    IN  Returned([columns |-> HeartColumns, rows |-> GroupByDate(Kept(kept), "mean")])

\* lines 65-81
transform_resp_data(table) ==
    LET parsed == [i \in 1..Len(table) |->
                      [created_at |-> to_datetime(table[i].created_at),
                       x |-> to_numeric(table[i].count)]]
        ranged == SelectSeq(parsed, LAMBDA r : RespInRange(r.x))
        kept   == SelectSeq(ranged, CreatedNotNa)
    IN  Returned([columns |-> RespColumns, rows |-> GroupByDate(Kept(kept), "mean")])

\* line 18 without a to_numeric: read_csv leaves a column that holds any
\* non-numeric text as a column of strings; its blank cells are NaN
CountAsRead(c) == IF c.txt = "num" THEN Val(c.v) ELSE NA

\* line 153: comparing a column of strings with 100000 raises TypeError
StepCompareRaises(table) == \E i \in 1..Len(table) : table[i].count.txt = "text"

\* lines 150-165
transform_step_data(table) ==
    LET parsed == [i \in 1..Len(table) |->
                      [created_at |-> to_datetime(table[i].created_at),
                       x |-> CountAsRead(table[i].count)]]
        ranged == SelectSeq(parsed, LAMBDA r : StepInRange(r.x))
        kept   == SelectSeq(ranged, CreatedNotNa)
    IN  IF StepCompareRaises(table) THEN Raised("TypeError")
        ELSE Returned([columns |-> StepColumns, rows |-> GroupByDate(Kept(kept), "sum")])

-----------------------------------------------------------------------------
(* SpecSleep: transform_sleep_data on a table of well-formed sessions, and *)
(* the merge run a second time on the frame of merged intervals            *)

SleepRows(reports, times) ==
    {[created_at |-> TsCell(c), start_date |-> TsCell(s), end_date |-> TsCell(e)] :
        c \in reports, s \in times, e \in times}

IdleTransform ==
    /\ metric = "none" /\ df = <<>> /\ pc = "idle"
    /\ merged_sessions = <<>> /\ result = NotRun /\ remerged = <<>>

IdleMain == stage = [at |-> "idle", k |-> 0] /\ frames = <<>> /\ store = <<>> /\ log = <<>>

IdleParse ==
    pass = [n |-> 0, at |-> "idle"] /\ fpos = 0 /\ buffer = <<>> /\ written = <<>>

IdleExtract ==
    /\ doc = <<>> /\ cursor = 0 /\ filter = "none" /\ rows = <<>> /\ warnings = <<>>
    /\ IdleParse

InitSleep ==
    /\ metric = "sleep"
    /\ df \in SeqsUpTo(SleepRows(0..SleepMaxReport, 0..SleepMaxTime), SleepMaxRows)
    /\ pc = "loaded"
    /\ merged_sessions = <<>> /\ result = NotRun /\ remerged = <<>>
    /\ IdleMain /\ IdleExtract

\* transform_sleep_data(df), lines 94-140
TransformSleep ==
    /\ pc = "loaded" /\ metric = "sleep"
    /\ merged_sessions' = MergeSessions(sort_values(SleepClean(df)))
    /\ result' = transform_sleep_data(df)
    /\ pc' = "done"
    /\ UNCHANGED <<metric, df, remerged, mainVars, extractVars>>

\* lines 105-125 on merged_df (lines 128, 132)
Remerge ==
    /\ pc = "done" /\ metric = "sleep" /\ result.raised = "none"
    /\ remerged' = MergeSessions(sort_values(MergedFrame(merged_sessions)))
    /\ pc' = "remerged"
    /\ UNCHANGED <<metric, df, merged_sessions, result, mainVars, extractVars>>

NextSleep == TransformSleep \/ Remerge

SpecSleep == InitSleep /\ [][NextSleep]_vars

-----------------------------------------------------------------------------
(* SpecTransform: each of the four transforms on a table as read_csv may   *)
(* deliver it, cells that do not parse included                            *)

CreatedCells == {TextCell} \cup {TsCell(t) : t \in 0..TMaxTime}

NumberCells(values) == {TextCell, BlankCell} \cup {NumCell(n) : n \in values}

HeartValues == {HeartMin - 1, HeartMin, HeartMax, HeartMax + 1}
RespValues == {RespMin - 1, RespMin, RespMax, RespMax + 1}
StepValues == {0 - 1, 0, StepMax, StepMax + 1}

HeartRows == {[created_at |-> c, value |-> x] : c \in CreatedCells, x \in NumberCells(HeartValues)}
RespRows == {[created_at |-> c, count |-> x] : c \in CreatedCells, x \in NumberCells(RespValues)}
StepRows == {[created_at |-> c, count |-> x] : c \in CreatedCells, x \in NumberCells(StepValues)}

RawSleepCells == {TextCell} \cup {TsCell(t) : t \in 0..TSleepMaxTime}
RawSleepRows ==
    {[created_at |-> c, start_date |-> s, end_date |-> e] :
        c \in RawSleepCells, s \in RawSleepCells, e \in RawSleepCells}

RowsOf(m) ==
    CASE m = "heart" -> HeartRows
      [] m = "resp"  -> RespRows
      [] m = "sleep" -> RawSleepRows
      [] m = "step"  -> StepRows

Metrics == <<"heart", "resp", "sleep", "step">>

\* lines 179, 183, 187, 191: the transform main() calls for a metric
TransformOf(m, table) ==
    CASE m = "heart" -> transform_heart_data(table)
      [] m = "resp"  -> transform_resp_data(table)
      [] m = "sleep" -> transform_sleep_data(table)
      [] m = "step"  -> transform_step_data(table)

InitTransform ==
    /\ metric \in Range(Metrics)
    /\ df \in SeqsUpTo(RowsOf(metric), TMaxRows)
    /\ pc = "loaded"
    /\ merged_sessions = <<>> /\ result = NotRun /\ remerged = <<>>
    /\ IdleMain /\ IdleExtract

\* transform_heart_data(df), lines 37-55
TransformHeart ==
    /\ pc = "loaded" /\ metric = "heart"
    /\ result' = transform_heart_data(df)
    /\ pc' = "done"
    /\ UNCHANGED <<metric, df, merged_sessions, remerged, mainVars, extractVars>>

\* transform_resp_data(df), lines 65-81
TransformResp ==
    /\ pc = "loaded" /\ metric = "resp"
    /\ result' = transform_resp_data(df)
    /\ pc' = "done"
    /\ UNCHANGED <<metric, df, merged_sessions, remerged, mainVars, extractVars>>

\* transform_step_data(df), lines 150-165
TransformStep ==
    /\ pc = "loaded" /\ metric = "step"
    /\ result' = transform_step_data(df)
    /\ pc' = "done"
    /\ UNCHANGED <<metric, df, merged_sessions, remerged, mainVars, extractVars>>

NextTransform == TransformHeart \/ TransformResp \/ TransformSleep \/ TransformStep

SpecTransform == InitTransform /\ [][NextTransform]_vars

-----------------------------------------------------------------------------
(* SpecMain: the driver main() of transform_data.py.  get_object and        *)
(* put_object may raise; a transform raises where its code does.            *)

MainCreatedCells == {TsCell(0), TextCell}

MainRowsOf(m) ==
    CASE m = "heart" -> {[created_at |-> c, value |-> x] :
                            c \in MainCreatedCells, x \in {NumCell(HeartMin), TextCell}}
      [] m = "resp"  -> {[created_at |-> c, count |-> x] :
                            c \in MainCreatedCells, x \in {NumCell(RespMin), TextCell}}
      [] m = "sleep" -> {[created_at |-> c, start_date |-> c, end_date |-> e] :
                            c \in MainCreatedCells, e \in {TsCell(1), TextCell}}
      [] m = "step"  -> {[created_at |-> c, count |-> x] :
                            c \in MainCreatedCells, x \in {NumCell(StepMax), TextCell}}

Event(ev, k, ok) == [ev |-> ev, k |-> k, ok |-> ok]

At(a, k) == [at |-> a, k |-> k]

\* lines 180-182, 184-186, 188-190, 192-194: the statement after write k
AfterWrite(k) == IF k < Len(Metrics) THEN At("read", k + 1) ELSE At("finish", 0)

\* the exception swallowed and the next metric taken up
OnRaiseContinue(k) == IF Len(frames) >= k THEN AfterWrite(k) ELSE At("except", k)

\* line 198: an exception raised at metric k is caught by the handler of the try
OnRaise(k) == At("except", k)

InitMain ==
    /\ stage = At("start", 0)
    /\ frames = <<>> /\ store = <<>> /\ log = <<>>
    /\ IdleTransform /\ IdleExtract

\* lines 174-175
MainStart ==
    /\ stage.at = "start"
    /\ log' = Append(log, Event("start", 0, TRUE))
    /\ stage' = At("read", 1)
    /\ UNCHANGED <<frames, store, transformVars, extractVars>>

\* lines 178, 182, 186, 190: read_csv_from_s3(key), lines 14-20
MainRead ==
    /\ stage.at = "read"
    /\ \/ \E table \in SeqsUpTo(MainRowsOf(Metrics[stage.k]), MainMaxRows) :
            /\ frames' = Append(frames, [df |-> table, tf |-> NoTable])
            /\ log' = Append(log, Event("read", stage.k, TRUE))
            /\ stage' = At("transform", stage.k)
       \/ /\ log' = Append(log, Event("read", stage.k, FALSE))
          /\ stage' = OnRaise(stage.k)
          /\ UNCHANGED frames
    /\ UNCHANGED <<store, transformVars, extractVars>>

\* lines 179, 183, 187, 191: the metric's transform on the frame just read
MainTransform ==
    /\ stage.at = "transform"
    /\ LET r == TransformOf(Metrics[stage.k], frames[stage.k].df)
       IN  \/ /\ r.raised = "none"
              /\ frames' = [frames EXCEPT ![stage.k].tf = r.table]
              /\ log' = Append(log, Event("transform", stage.k, TRUE))
              /\ stage' = At("write", stage.k)
           \/ /\ r.raised # "none"
              /\ log' = Append(log, Event("transform", stage.k, FALSE))
              /\ stage' = OnRaise(stage.k)
              /\ UNCHANGED frames
    /\ UNCHANGED <<store, transformVars, extractVars>>

\* lines 180, 184, 188, 192: write_parquet_tos3(tf, key), lines 22-28
MainWrite ==
    /\ stage.at = "write"
    /\ \/ /\ store' = Append(store, [key |-> Metrics[stage.k], body |-> frames[stage.k].tf])
          /\ log' = Append(log, Event("write", stage.k, TRUE))
          /\ stage' = AfterWrite(stage.k)
       \/ /\ log' = Append(log, Event("write", stage.k, FALSE))
          /\ stage' = OnRaise(stage.k)
          /\ UNCHANGED store
    /\ UNCHANGED <<frames, transformVars, extractVars>>

\* lines 194-196: the last statements of the try
MainFinish ==
    /\ stage.at = "finish"
    /\ log' = log \o <<Event("completed", 0, TRUE), Event("elapsed", 0, TRUE)>>
    /\ stage' = At("end", 0)
    /\ UNCHANGED <<frames, store, transformVars, extractVars>>

\* lines 198-199: the handler logs the exception and main() returns
MainExcept ==
    /\ stage.at = "except"
    /\ log' = Append(log, Event("failed", stage.k, FALSE))
    /\ stage' = At("end", stage.k)
    /\ UNCHANGED <<frames, store, transformVars, extractVars>>

NextMain == MainStart \/ MainRead \/ MainTransform \/ MainWrite \/ MainFinish \/ MainExcept

SpecMain == InitMain /\ [][NextMain]_vars

-----------------------------------------------------------------------------
(* SpecExtract: one pass of generate_rows(record_type_filter, row_builder)  *)
(* over a well-formed document.  An element is [tag, type, attrib, builds];  *)
(* builds says whether the row_builder handed to the pass returns a row for *)
(* the element or raises.                                                   *)

HeartType == "HKQuantityTypeIdentifierHeartRate"
StepType == "HKQuantityTypeIdentifierStepCount"

\* the attributes an element carries besides its type; "absent" is a missing one
Attribs == {[creationDate |-> "d1", value |-> "absent"],
            [creationDate |-> "absent", value |-> "60"]}

Elements ==
    [tag : {"Record", "Workout"}, type : {HeartType, StepType},
     attrib : Attribs, builds : BOOLEAN]

\* attrib.get(name, default)
Get(a, default) == IF a = "absent" THEN default ELSE a

\* lines 49-53, 62-66: heart_row(e), step_row(e)
Projection(e) == <<Get(e.attrib.creationDate, ""), Get(e.attrib.value, "0")>>

\* the generator is closed by the exception
AfterBuilderRaiseStop(c) == Len(doc)

\* lines 45-47, 39: the exception is caught, the element cleared, the loop goes on
AfterBuilderRaise(c) == c + 1

InitExtract ==
    /\ doc \in SeqsUpTo(Elements, DocMaxLen)
    /\ filter \in {HeartType, StepType}
    /\ cursor = 0 /\ rows = <<>> /\ warnings = <<>>
    /\ IdleParse
    /\ IdleTransform /\ IdleMain

\* lines 39-41: an element that is no Record
ExtractOtherTag ==
    /\ cursor < Len(doc)
    /\ doc[cursor + 1].tag # "Record"
    /\ cursor' = cursor + 1
    /\ UNCHANGED <<doc, filter, rows, warnings, parseVars, transformVars, mainVars>>

\* lines 39-42, 47: a Record of another type
ExtractOtherType ==
    /\ cursor < Len(doc)
    /\ doc[cursor + 1].tag = "Record"
    /\ doc[cursor + 1].type # filter
    /\ cursor' = cursor + 1
    /\ UNCHANGED <<doc, filter, rows, warnings, parseVars, transformVars, mainVars>>

\* lines 39-44, 47: a matching Record, row_builder returns its row
ExtractYield ==
    /\ cursor < Len(doc)
    /\ doc[cursor + 1].tag = "Record"
    /\ doc[cursor + 1].type = filter
    /\ doc[cursor + 1].builds
    /\ rows' = Append(rows, Projection(doc[cursor + 1]))
    /\ cursor' = cursor + 1
    /\ UNCHANGED <<doc, filter, warnings, parseVars, transformVars, mainVars>>

\* lines 39-47: a matching Record, row_builder raises
ExtractSkip ==
    /\ cursor < Len(doc)
    /\ doc[cursor + 1].tag = "Record"
    /\ doc[cursor + 1].type = filter
    /\ ~doc[cursor + 1].builds
    /\ warnings' = Append(warnings, cursor + 1)
    /\ cursor' = AfterBuilderRaise(cursor)
    /\ UNCHANGED <<doc, filter, rows, parseVars, transformVars, mainVars>>

NextExtract == ExtractOtherTag \/ ExtractOtherType \/ ExtractYield \/ ExtractSkip

SpecExtract == InitExtract /\ [][NextExtract]_vars

-----------------------------------------------------------------------------
(* SpecParse: parse_and_write(streaming_body), the four passes over the     *)
(* BytesIO that run() builds.  File positions count elements; one read of   *)
(* iterparse takes up to ChunkLen elements from the source.                 *)

SleepType == "HKCategoryTypeIdentifierSleepAnalysis"
RespType == "HKQuantityTypeIdentifierRespiratoryRate"

Min(a, b) == IF a <= b THEN a ELSE b

\* lines 74-90: the filter, the key and the header of each pass, in the order of the calls
PassTypes == <<HeartType, SleepType, StepType, RespType>>
PassKeys == <<"processed/Heart_Data.csv", "processed/Sleep_Data.csv",
              "processed/Step_Data.csv", "processed/Resp_Data.csv">>
PassHeaders == << <<"created_at", "value">>, <<"created_at", "start_date", "end_date">>,
                  <<"created_at", "count">>, <<"created_at", "count">> >>

ParseAttribs ==
    {[creationDate |-> "d1", value |-> "60", startDate |-> "absent", endDate |-> "absent"],
     [creationDate |-> "d1", value |-> "absent", startDate |-> "s1", endDate |-> "e1"]}

ParseElements ==
    [tag : {"Record"}, type : Range(PassTypes), attrib : ParseAttribs, builds : {TRUE}]
        \cup {[tag |-> "Workout", type |-> HeartType,
               attrib |-> CHOOSE a \in ParseAttribs : a.value = "60", builds |-> TRUE]}

\* lines 55-60
sleep_row(e) ==
    <<Get(e.attrib.creationDate, ""), Get(e.attrib.startDate, ""), Get(e.attrib.endDate, "")>>

\* lines 49-72: the row builder handed to pass n
RowOf(n, e) == IF PassTypes[n] = SleepType THEN sleep_row(e) ELSE Projection(e)

\* the file position left where the pass before stopped reading
SeekNowhere(pos) == pos

\* lines 77, 82, 87: streaming_body.seek(0)
SeekZero(pos) == 0

At2(n, a) == [n |-> n, at |-> a]

\* line 108: parse_and_write(BytesIO(xml_bytes))
InitParse ==
    /\ doc \in SeqsUpTo(ParseElements, ParseMaxLen)
    /\ pass = At2(1, "call") /\ fpos = 0 /\ buffer = <<>> /\ written = <<>>
    /\ cursor = 0 /\ filter = "none" /\ rows = <<>> /\ warnings = <<>>
    /\ IdleTransform /\ IdleMain

\* lines 74, 79, 84, 89: stream_write(...) writes the header (14-18) and its
\* loop starts the generator, which opens iterparse on the stream (37-38)
ParseOpen ==
    /\ pass.at = "call"
    /\ filter' = PassTypes[pass.n]
    /\ cursor' = 0 /\ rows' = <<>> /\ buffer' = <<>>
    /\ pass' = At2(pass.n, "scan")
    /\ UNCHANGED <<doc, warnings, fpos, written, transformVars, mainVars>>

\* line 39: iterparse has no event left and reads on from the file position
ParseReadChunk ==
    /\ pass.at = "scan" /\ buffer = <<>> /\ fpos < Len(doc)
    /\ buffer' = SubSeq(doc, fpos + 1, Min(fpos + ChunkLen, Len(doc)))
    /\ fpos' = Min(fpos + ChunkLen, Len(doc))
    /\ UNCHANGED <<doc, cursor, filter, rows, warnings, pass, written,
                   transformVars, mainVars>>

\* lines 39-47, 21-23: one element delivered; the row of a matching Record is
\* yielded and written to the buffer of the CSV
ParseElement ==
    /\ pass.at = "scan" /\ buffer # <<>>
    /\ LET e == Head(buffer)
       IN  rows' = IF e.tag = "Record" /\ e.type = filter
                       THEN Append(rows, RowOf(pass.n, e))
                       ELSE rows
    /\ buffer' = Tail(buffer)
    /\ cursor' = cursor + 1
    /\ UNCHANGED <<doc, filter, warnings, pass, fpos, written, transformVars, mainVars>>

\* lines 27-28: the source is exhausted, the loop ends and the CSV is put;
\* put_object may raise, and nothing in parse_and_write or run() catches it
ParsePut ==
    /\ pass.at = "scan" /\ buffer = <<>> /\ fpos >= Len(doc)
    /\ \/ /\ written' = Append(written, [key |-> PassKeys[pass.n],
                                          header |-> PassHeaders[pass.n], rows |-> rows])
          /\ pass' = IF pass.n < Len(PassTypes) THEN At2(pass.n, "seek") ELSE At2(pass.n, "log")
       \/ /\ pass' = At2(pass.n, "raised")
          /\ UNCHANGED written
    /\ UNCHANGED <<doc, cursor, filter, rows, warnings, fpos, buffer, transformVars, mainVars>>

\* lines 77, 82, 87
ParseSeek ==
    /\ pass.at = "seek"
    /\ fpos' = SeekZero(fpos)
    /\ pass' = At2(pass.n + 1, "call")
    /\ UNCHANGED <<doc, cursor, filter, rows, warnings, buffer, written,
                   transformVars, mainVars>>

\* line 92
ParseLog ==
    /\ pass.at = "log"
    /\ pass' = At2(pass.n, "done")
    /\ UNCHANGED <<doc, cursor, filter, rows, warnings, fpos, buffer, written,
                   transformVars, mainVars>>

NextParse == ParseOpen \/ ParseReadChunk \/ ParseElement \/ ParsePut \/ ParseSeek \/ ParseLog

SpecParse == InitParse /\ [][NextParse]_vars

-----------------------------------------------------------------------------
(* Claims about the sleep merge *)

\* the sessions of the input table with three well-formed timestamps and end > start
ValidSessions ==
    SelectSeq(df, LAMBDA r :
        /\ r.created_at.txt = "ts" /\ r.start_date.txt = "ts" /\ r.end_date.txt = "ts"
        /\ r.end_date.v > r.start_date.v)

ValidTotal ==
    SumSeq([i \in 1..Len(ValidSessions) |->
                ValidSessions[i].end_date.v - ValidSessions[i].start_date.v])

MergedTotal ==
    SumSeq([i \in 1..Len(merged_sessions) |-> merged_sessions[i][2] - merged_sessions[i][1]])

SleepMerged == metric = "sleep" /\ pc \in {"done", "remerged"}

\* two different valid sessions overlap or touch
SomeOverlapOrTouch ==
    \E i, j \in 1..Len(ValidSessions) :
        /\ i # j
        /\ ValidSessions[i].start_date.v <= ValidSessions[j].end_date.v
        /\ ValidSessions[j].start_date.v <= ValidSessions[i].end_date.v

\* two different valid sessions have more than an instant in common
SomeProperOverlap ==
    \E i, j \in 1..Len(ValidSessions) :
        /\ i # j
        /\ ValidSessions[i].start_date.v < ValidSessions[j].end_date.v
        /\ ValidSessions[j].start_date.v < ValidSessions[i].end_date.v

C2_OverlapMergesToOne ==
    (SleepMerged /\ Len(df) = 2 /\ Len(ValidSessions) = 2) =>
        \A i, j \in 1..2 :
            (/\ i # j
             /\ df[i].start_date.v <= df[j].start_date.v
             /\ df[j].start_date.v <= df[i].end_date.v)
            => merged_sessions =
                  << <<df[i].start_date.v, Max(df[i].end_date.v, df[j].end_date.v)>> >>

\* C3: the merge run again on the merged intervals returns the same intervals
C3_MergeIdempotent == (metric = "sleep" /\ pc = "remerged") => remerged = merged_sessions

\* the second run had two intervals to keep apart
C3_Witness ==
    metric = "sleep" /\ pc = "remerged" /\ Len(merged_sessions) = 2 /\ Len(remerged) = 2

-----------------------------------------------------------------------------
(* Claims about the validity filters and the rows that do not parse *)

TransformDone == pc = "done" /\ metric \in Range(Metrics)

\* the numeric cell of a heart, respiration or step row
NumericCell(r) == IF metric = "heart" THEN r.value ELSE r.count

\* the metric's validity filter, on a cell that holds a number
InValidRange(n) ==
    CASE metric = "heart" -> n >= 30 /\ n <= 220
      [] metric = "resp"  -> n >= 8 /\ n <= 40
      [] metric = "step"  -> n <= 100000

\* the rows of the input table that may contribute to date d
Contributors(d) ==
    SelectSeq(df, LAMBDA r :
        /\ r.created_at.txt = "ts" /\ Date(r.created_at.v) = d
        /\ NumericCell(r).txt = "num" /\ InValidRange(NumericCell(r).v))

ContributorSum(d) == SumSeq([i \in 1..Len(Contributors(d)) |-> NumericCell(Contributors(d)[i]).v])

ExpectedAggregate(d) ==
    IF metric = "step" THEN ContributorSum(d)
    ELSE <<ContributorSum(d), Len(Contributors(d))>>

ContributingDates ==
    {Date(df[i].created_at.v) : i \in {j \in 1..Len(df) : df[j].created_at.txt = "ts"}}

\* C4: the daily aggregate of heart, respiration and steps is taken over
\* exactly the rows whose number passes the filter ([30,220], [8,40], <= 100000
\* with no lower bound): a date is in the output iff it has such a row, and its
\* aggregate is the mean (sum, n) or the sum of those rows alone
C4_OnlyValidRowsContribute ==
    (TransformDone /\ metric # "sleep" /\ result.raised = "none") =>
        /\ {result.table.rows[k].created_at : k \in 1..Len(result.table.rows)}
               = {d \in ContributingDates : Contributors(d) # <<>>}
        /\ \A k \in 1..Len(result.table.rows) :
               result.table.rows[k].agg = ExpectedAggregate(result.table.rows[k].created_at)

\* steps on one date: a negative count is summed, 100001 is left out
C4_Witness ==
    /\ TransformDone /\ metric = "step" /\ result.raised = "none"
    /\ Len(df) = 2
    /\ df[1].count = NumCell(0 - 1) /\ df[2].count = NumCell(100001)
    /\ df[1].created_at = TsCell(0) /\ df[2].created_at = TsCell(0)
    /\ Len(result.table.rows) = 1
    /\ result.table.rows[1].agg = 0 - 1

\* a row with a timestamp or a numeric field that does not parse
Unparseable(r) ==
    IF metric = "sleep"
        THEN r.created_at.txt # "ts" \/ r.start_date.txt # "ts" \/ r.end_date.txt # "ts"
        ELSE r.created_at.txt # "ts" \/ NumericCell(r).txt = "text"

\* C5: a table with rows that do not parse makes no transform raise, and the
\* result is the one of the table without those rows
C5_UnparseableRowsRejected ==
    (TransformDone /\ \E i \in 1..Len(df) : Unparseable(df[i])) =>
        /\ result.raised = "none"
        /\ result = TransformOf(metric, SelectSeq(df, LAMBDA r : ~Unparseable(r)))

\* a row the transform filters out: it does not parse, or its number (its
\* session) fails the validity filter
FilteredOut(r) ==
    \/ Unparseable(r)
    \/ metric = "sleep" /\ r.end_date.v <= r.start_date.v
    \/ metric # "sleep" /\ (NumericCell(r).txt # "num" \/ ~InValidRange(NumericCell(r).v))

ColumnsOf(m) ==
    CASE m = "heart" -> <<"created_at", "avg_heart_rate", "year", "month", "day">>
      [] m = "resp"  -> <<"created_at", "avg_resp_rate", "year", "month", "day">>
      [] m = "sleep" -> <<"created_at", "total_sleep_minutes", "year", "month", "day">>
      [] m = "step"  -> <<"created_at", "total_steps", "year", "month", "day">>

-----------------------------------------------------------------------------
(* Claims about main() *)

IsCall(e) == e.ev \in {"read", "transform", "write"}

\* the reads, transforms and writes main() has made, in order
Calls == SelectSeq(log, IsCall)

\* the i-th call of a run in which nothing raises
ScheduledCall(i) ==
    [ev |-> <<"read", "transform", "write">>[((i - 1) % 3) + 1], k |-> ((i - 1) \div 3) + 1]

MainEnded == stage.at = "end"

SomeCallRaised == \E i \in 1..Len(Calls) : ~Calls[i].ok

\* the metric whose read, transform or write raised
FailedMetric == Calls[Len(Calls)].k

\* the store holds the transformed tables of metrics 1..n, whole, and nothing else
StoreHoldsFirst(n) ==
    /\ Len(store) = n
    /\ \A j \in 1..n :
           store[j] = [key |-> <<"heart", "resp", "sleep", "step">>[j],
                       body |-> TransformOf(Metrics[j], frames[j].df).table]

\* C8: the calls are made in the order heart, respiration, sleep, steps (read,
\* transform, write of each); a call that raised is the last call ever made
\* (nothing later runs, nothing is retried); and when main() has returned
\* after a raise at metric k the failure is logged and the store holds exactly
\* the whole tables of the metrics before k
C8_FailFast ==
    /\ \A i \in 1..Len(Calls) :
           Calls[i].ev = ScheduledCall(i).ev /\ Calls[i].k = ScheduledCall(i).k
    /\ \A i \in 1..(Len(Calls) - 1) : Calls[i].ok
    /\ (MainEnded /\ SomeCallRaised) =>
           /\ Event("failed", FailedMetric, FALSE) \in Range(log)
           /\ StoreHoldsFirst(FailedMetric - 1)

\* main() has returned after the sleep transform raised, heart and respiration stored
C8_Witness ==
    /\ MainEnded
    /\ Len(Calls) = 8
    /\ Calls[8] = Event("transform", 3, FALSE)
    /\ Len(store) = 2

\* C9: when main() has returned, the elapsed time has been reported
C9_ElapsedAlwaysReported ==
    MainEnded => \E i \in 1..Len(log) : log[i].ev = "elapsed"

-----------------------------------------------------------------------------
(* Claims about the extraction pass *)

\* the positions, among the first n elements, of the Records of the filter's type
Matching(n) == {i \in 1..n : doc[i].tag = "Record" /\ doc[i].type = filter}

\* the rows of the matching Records among the first n elements on which the
\* builder succeeds, in document order
RECURSIVE ExpectedRows(_)
ExpectedRows(n) ==
    IF n = 0 THEN <<>>
    ELSE IF n \in Matching(n) /\ doc[n].builds
        THEN Append(ExpectedRows(n - 1), Projection(doc[n]))
        ELSE ExpectedRows(n - 1)

\* C7: at every point of a pass the rows yielded are the projections, in
\* document order, of the matching Records read so far whose builder
\* succeeded; each record whose builder failed is logged and nothing else is
\* lost; and the pass can always go on until the document is exhausted
C7_SkipOneAndContinue ==
    (filter # "none") =>
        /\ rows = ExpectedRows(cursor)
        /\ Range(warnings) = {i \in Matching(cursor) : ~doc[i].builds}
        /\ cursor <= Len(doc)
        /\ (cursor < Len(doc)) => ENABLED NextExtract

\* the pass is over; a record was skipped and a later record was still yielded
C7_Witness ==
    /\ filter # "none"
    /\ cursor = Len(doc)
    /\ \E i \in Range(warnings) : \E j \in Matching(cursor) : j > i /\ doc[j].builds
    /\ rows # <<>>

-----------------------------------------------------------------------------
(* Claims about the four passes of parse_and_write *)

\* the rows of the Records of type t among the first n elements of the
\* document, built by the builder of pass p, in document order
RECURSIVE RowsOfType(_, _, _)
RowsOfType(p, t, n) ==
    IF n = 0 THEN <<>>
    ELSE IF doc[n].tag = "Record" /\ doc[n].type = t
        THEN Append(RowsOfType(p, t, n - 1), RowOf(p, doc[n]))
        ELSE RowsOfType(p, t, n - 1)

\* a pass is open and has read nothing yet
BeforeFirstRead == pass.at = "scan" /\ cursor = 0 /\ buffer = <<>>

\* C11: the passes run in the order heart, sleep, steps, respiration; when a
\* pass is about to read for the first time the file position is zero; what
\* a pass has been delivered is the document from its first element on; and
\* the rows each pass wrote are those of the whole document, whatever the
\* earlier passes read
C11_EachPassFromZero ==
    /\ BeforeFirstRead => fpos = 0
    /\ pass.at = "scan" =>
           /\ filter = <<"HKQuantityTypeIdentifierHeartRate",
                         "HKCategoryTypeIdentifierSleepAnalysis",
                         "HKQuantityTypeIdentifierStepCount",
                         "HKQuantityTypeIdentifierRespiratoryRate">>[pass.n]
           /\ cursor + Len(buffer) = fpos
           /\ buffer = SubSeq(doc, cursor + 1, fpos)
           /\ rows = RowsOfType(pass.n, filter, cursor)
    /\ \A j \in 1..Len(written) :
           /\ written[j].key = PassKeys[j]
           /\ written[j].rows = RowsOfType(j, PassTypes[j], Len(doc))
    /\ pass.at \in {"seek", "log", "done"} => Len(written) = pass.n

\* all four passes are over: the first read to the end of the document, and
\* the second and the last still found their records
C11_Witness ==
    /\ pass = At2(4, "done")
    /\ Len(written) = 4
    /\ written[1].rows # <<>>
    /\ written[2].rows # <<>>
    /\ written[4].rows # <<>>

====
